---- MODULE Spec2Model ----
(***************************************************************************)
(* Model of scripts/json2vega.py: the VegaGraph* classes that load         *)
(* benchmark records, filter and project them with pandas, merge them into *)
(* a vega-lite template, pipe the result through vl2vg and hand it to the   *)
(* output writer.                                                           *)
(*                                                                         *)
(* Scalars are tagged records [ty, v]; floats are held in tenths (126 is    *)
(* 12.6).  A JSON document is a function from key paths to leaves.         *)
(***************************************************************************)
EXTENDS Integers, Sequences, FiniteSets, TLC

VARIABLES listdir, input_jsons, objs, pc, df_filtered, df_restricted, graph, vg, proc, written, err, own, table, trace, runs

vars == <<listdir, input_jsons, objs, pc, df_filtered, df_restricted, graph, vg, proc, written, err, own, table, trace, runs>>

(* ------------------------------ bounds -------------------------------- *)

\* longest Table drawn for the parse_jsons specification
MaxLen == 2
\* how many times run() is started in the process, over all objects
MaxRuns == 3
\* longest directory listing drawn for the read_json specification
MaxFiles == 2

(* ------------------------------ scalars ------------------------------- *)

S(s) == [ty |-> "str", v |-> s]
F(t) == [ty |-> "float", v |-> t]
I(n) == [ty |-> "int", v |-> n]
B(b) == [ty |-> "bool", v |-> b]
\* the value pandas puts where a record has no such field
NaN == [ty |-> "nan", v |-> 0]

IsNum(a) == a.ty \in {"float", "int", "bool"}

\* numeric value in tenths (Python compares int, float and bool by value)
Num(a) == CASE a.ty = "float" -> a.v
            [] a.ty = "int" -> 10 * a.v
            [] a.ty = "bool" -> IF a.v THEN 10 ELSE 0

\* the element-wise == of line 177: NaN equals nothing
PyEq(a, b) ==
    IF a.ty = "nan" \/ b.ty = "nan" THEN FALSE
    ELSE IF IsNum(a) /\ IsNum(b) THEN Num(a) = Num(b)
    ELSE a = b

Range(s) == {s[i] : i \in DOMAIN s}

\* the sub-sequence of s whose elements satisfy Keep, in order
RECURSIVE SelectRows(_, _)
SelectRows(s, keep) ==
    IF s = <<>> THEN <<>>
    ELSE IF keep[1] THEN <<s[1]>> \o SelectRows(Tail(s), Tail(keep))
    ELSE SelectRows(Tail(s), Tail(keep))

(* ---------------------------- DataFrame ------------------------------- *)

\* the storage type pandas gives a column built from these scalars
InferDtype(vals) ==
    LET tys == {a.ty : a \in vals} IN
    IF tys \subseteq {"int"} THEN "int64"
    ELSE IF tys \subseteq {"int", "float", "nan"} THEN "float64"
    ELSE IF tys \subseteq {"bool"} THEN "bool"
    ELSE "object"

\* a scalar as it is held in a column of that storage type
Cast(a, dt) == IF dt = "float64" /\ a.ty = "int" THEN F(10 * a.v) ELSE a

\* pandas.DataFrame(list of dicts): the union of the fields as columns, NaN
\* where a record lacks one, one storage type per column, a 0..n-1 index
DataFrame(recs) ==
    LET cols == UNION {DOMAIN recs[i] : i \in DOMAIN recs}
        raw(i, c) == IF c \in DOMAIN recs[i] THEN recs[i][c] ELSE NaN
        dt == [c \in cols |-> InferDtype({raw(i, c) : i \in DOMAIN recs})]
    IN [cols |-> cols,
        dtype |-> dt,
        rows |-> [i \in DOMAIN recs |-> [c \in cols |-> Cast(raw(i, c), dt[c])]],
        index |-> [i \in DOMAIN recs |-> i - 1]]

Ok(v) == [ok |-> TRUE, val |-> v]
Raise(e) == [ok |-> FALSE, err |-> e]

\* df.loc[df[key] == value]
LocEq(df, key, value) ==
    LET keep == [i \in DOMAIN df.rows |-> PyEq(df.rows[i][key], value)]
    IN [df EXCEPT !.rows = SelectRows(df.rows, keep),
                  !.index = SelectRows(df.index, keep)]

\* a filter loop that stops after its first condition
RestrictFirstOnly(df, conds) ==
    IF DOMAIN conds = {} THEN Ok(df)
    ELSE LET key == CHOOSE k \in DOMAIN conds : TRUE
         IN IF key \notin df.cols THEN Raise("KeyError")
            ELSE Ok(LocEq(df, key, conds[key]))

\* the loop over conditions_dict.iteritems(); df[key] raises KeyError when
\* key is no column
RECURSIVE Restrict(_, _)
Restrict(df, conds) ==
    IF DOMAIN conds = {} THEN Ok(df)
    ELSE LET key == CHOOSE k \in DOMAIN conds : TRUE
             rest == [k \in DOMAIN conds \ {key} |-> conds[k]]
         IN IF key \notin df.cols THEN Raise("KeyError")
            ELSE Restrict(LocEq(df, key, conds[key]), rest)

(* ------------------------- Axis projection ---------------------------- *)

\* storage type of a column rebuilt from an index: an object index is looked
\* at again value by value when the pandas build infers (infers = TRUE) and
\* is left as object when it does not
IndexDtype(df, x, infers) ==
    IF df.dtype[x] = "object" /\ infers /\ df.rows # <<>>
    THEN InferDtype({df.rows[i][x] : i \in DOMAIN df.rows})
    ELSE df.dtype[x]

\* a projection that reduces by key: of the rows sharing an x, only the last
ProjectBarKeepLast(df, axes_vars, infers) ==
    IF "x" \notin DOMAIN axes_vars \/ "y" \notin DOMAIN axes_vars THEN Raise("KeyError")
    ELSE LET x == axes_vars["x"]
             y == axes_vars["y"]
         IN IF x \notin df.cols \/ y \notin df.cols \ {x} THEN Raise("KeyError")
            ELSE LET xdt == IndexDtype(df, x, infers)
                     last == [i \in DOMAIN df.rows |->
                                 \A j \in DOMAIN df.rows : j > i => df.rows[j][x] # df.rows[i][x]]
                     rows == SelectRows(df.rows, last)
                 IN Ok([cols |-> {x, y},
                        dtype |-> [c \in {x, y} |-> IF c = x THEN xdt ELSE df.dtype[y]],
                        rows |-> [i \in DOMAIN rows |->
                                     [c \in {x, y} |-> IF c = x THEN Cast(rows[i][x], xdt)
                                                       ELSE rows[i][y]]],
                        index |-> [i \in DOMAIN rows |-> i - 1]])

\* lines 180-183: set_index(x)[y], DataFrame(...), reset_index().  set_index
\* removes column x, so y must be another column; every row is kept
ProjectBar(df, axes_vars, infers) ==
    IF "x" \notin DOMAIN axes_vars \/ "y" \notin DOMAIN axes_vars THEN Raise("KeyError")
    ELSE LET x == axes_vars["x"]
             y == axes_vars["y"]
         IN IF x \notin df.cols \/ y \notin df.cols \ {x} THEN Raise("KeyError")
            ELSE LET xdt == IndexDtype(df, x, infers)
                 IN Ok([cols |-> {x, y},
                        dtype |-> [c \in {x, y} |-> IF c = x THEN xdt ELSE df.dtype[y]],
                        rows |-> [i \in DOMAIN df.rows |->
                                     [c \in {x, y} |-> IF c = x THEN Cast(df.rows[i][x], xdt)
                                                       ELSE df.rows[i][y]]],
                        index |-> [i \in DOMAIN df.rows |-> i - 1]])

\* a rounding that drops the fraction
RintFloor(a) == IF a.ty = "nan" THEN NaN ELSE F(10 * (Num(a) \div 10))

\* numpy.rint of one float held in tenths: nearest integer, a tie to the even one
Rint(a) ==
    IF a.ty = "nan" THEN NaN
    ELSE LET t == Num(a)
             q == t \div 10
             r == t % 10
         IN IF r < 5 THEN F(10 * q)
            ELSE IF r > 5 THEN F(10 * (q + 1))
            ELSE IF q % 2 = 0 THEN F(10 * q) ELSE F(10 * (q + 1))

HeatmapFields == {"dataset", "m_teps", "alpha", "beta"}

\* lines 320-322: the four fixed columns, then assign(m_teps_rounded=rint(m_teps));
\* rint has no loop for a column of storage type object
ProjectHeatmap(df) ==
    IF ~(HeatmapFields \subseteq df.cols) THEN Raise("KeyError")
    ELSE IF df.dtype["m_teps"] \notin {"float64", "int64"} THEN Raise("TypeError")
    ELSE LET cols == HeatmapFields \cup {"m_teps_rounded"}
         IN Ok([cols |-> cols,
                dtype |-> [c \in cols |-> IF c = "m_teps_rounded" THEN "float64" ELSE df.dtype[c]],
                rows |-> [i \in DOMAIN df.rows |->
                             [c \in cols |-> IF c = "m_teps_rounded" THEN Rint(df.rows[i]["m_teps"])
                                             ELSE df.rows[i][c]]],
                index |-> df.index])

\* a type test against the wrong storage type
AxisTypeInt(df, field) == IF df.dtype[field] = "int64" THEN "quantitative" ELSE "ordinal"

\* lines 194-197
AxisType(df, field) == IF df.dtype[field] = "float64" THEN "quantitative" ELSE "ordinal"

(* --------------------------- JSON documents --------------------------- *)

EmptyDict == [ty |-> "dict", v |-> 0]
List(rows) == [ty |-> "list", v |-> rows]
\* a scalar or list as a document: the leaf at the empty path
Leaf(a) == (<< >> :> a)

IsPrefix(p, q) == Len(p) <= Len(q) /\ SubSeq(q, 1, Len(p)) = p
Front(p) == SubSeq(p, 1, Len(p) - 1)

\* doc[p[1]]...[p[n]] exists and is a dict
HasDict(doc, p) ==
    \/ p = << >>
    \/ p \in DOMAIN doc /\ doc[p].ty = "dict"
    \/ \E q \in DOMAIN doc : IsPrefix(p, q) /\ q # p

\* an assignment that rebuilds the enclosing dict around the new entry
SetItemParent(doc, p, sub) ==
    LET kept == {q \in DOMAIN doc : Len(p) = 1 \/ ~IsPrefix(Front(p), q)}
        new == {p \o r : r \in DOMAIN sub}
    IN [q \in (kept \ {r \in kept : IsPrefix(p, r)}) \cup new |->
           IF q \in new THEN sub[SubSeq(q, Len(p) + 1, Len(q))] ELSE doc[q]]

\* doc[p[1]]...[p[n]] = sub: whatever was at p, and below it, is replaced
SetItem(doc, p, sub) ==
    LET kept == {q \in DOMAIN doc : ~IsPrefix(p, q) /\ q # Front(p)}
        new == {p \o r : r \in DOMAIN sub}
    IN [q \in kept \cup new |->
           IF q \in new THEN sub[SubSeq(q, Len(p) + 1, Len(q))] ELSE doc[q]]

\* the assignments in order; the lookup of a missing key raises KeyError
RECURSIVE Assign(_, _)
Assign(doc, todo) ==
    IF todo = << >> THEN Ok(doc)
    ELSE IF ~HasDict(doc, Front(todo[1].path)) THEN Raise("KeyError")
    ELSE Assign(SetItem(doc, todo[1].path, todo[1].sub), Tail(todo))

\* every key path of the document, at every depth
KeyPaths(doc) == UNION {{SubSeq(q, 1, n) : n \in 1..Len(q)} : q \in DOMAIN doc}

(* ----------------------- configuration resources ---------------------- *)

TemplateMin ==
    (<<"mark">> :> S("bar")) @@ (<<"encoding", "x">> :> EmptyDict)
    @@ (<<"encoding", "y">> :> EmptyDict)

TemplateRich ==
    (<<"description">> :> S("chart")) @@ (<<"mark">> :> S("point"))
    @@ (<<"data", "values">> :> List(<< >>))
    @@ (<<"data", "format", "type">> :> S("json"))
    @@ (<<"encoding", "x", "axis", "title">> :> S(""))
    @@ (<<"encoding", "x", "axis", "labelAngle">> :> I(45))
    @@ (<<"encoding", "x", "scale", "zero">> :> B(FALSE))
    @@ (<<"encoding", "y", "axis", "grid">> :> B(TRUE))
    @@ (<<"encoding", "y", "field">> :> S("old"))
    @@ (<<"encoding", "y", "type">> :> S("nominal"))
    @@ (<<"config", "cell", "width">> :> I(300))

TemplateNoEncoding == (<<"mark">> :> S("rect")) @@ (<<"config">> :> EmptyDict)

ConfigDirs == {"minimal", "rich", "partial"}

\* the files <graph type>_config.json of each configuration directory
ConfigFiles(dir) ==
    CASE dir = "minimal" -> [t \in {"bar", "scatter", "heatmap"} |-> TemplateMin]
      [] dir = "rich" -> [t \in {"bar", "scatter", "heatmap"} |-> TemplateRich]
      [] dir = "partial" -> [t \in {"bar", "heatmap"} |-> TemplateNoEncoding]

\* line 100: json.load(open(config_dir + "/" + graph_type.lower() + "_config.json"))
read_config(o) ==
    IF o.graph_type \in DOMAIN ConfigFiles(o.config_dir)
    THEN Ok(ConfigFiles(o.config_dir)[o.graph_type])
    ELSE Raise("IOError")

(* ------------------------------ objects ------------------------------- *)

\* graph_type as each constructor leaves it (lines 166, 240, 287, 306)
GraphType(cls) ==
    CASE cls = "VegaGraphBarBase" -> "barbase"
      [] cls = "VegaGraphBar" -> "bar"
      [] cls = "VegaGraphScatter" -> "scatter"
      [] cls = "VegaGraphHeatmap" -> "heatmap"

\* the constructors: every class stores the same attributes.  writer tells
\* whether the instance has a write_to_file attribute: run() calls
\* self.write_to_file, which no class of json2vega.py defines
New(cls, input_path, config_dir, labels, conditions_dict, axes_vars, writer) ==
    [cls |-> cls,
     graph_type |-> GraphType(cls),
     input_path |-> input_path,
     config_dir |-> config_dir,
     algorithm_name |-> labels.algorithm_name,
     x_axis_label |-> labels.x_axis,
     y_axis_label |-> labels.y_axis,
     conditions_dict |-> conditions_dict,
     axes_vars |-> axes_vars,
     writer |-> writer]

(* ----------------------------- parse_jsons ---------------------------- *)

NoFrame == DataFrame(<< >>)
NoDoc == << >>

\* what one call of parse_jsons did: the stages it completed, df_restricted
\* as the filter loop left it (line 177) and as the projection left it (line
\* 183 or 322), and the returned graph; or the exception, which leaves nothing
Parsed(filtered, projected, g) ==
    [ok |-> TRUE, err |-> "", done |-> <<"filter", "project", "config", "merge">>,
     filtered |-> filtered, projected |-> projected, graph |-> g]
Failed(e, done) ==
    [ok |-> FALSE, err |-> e, done |-> done,
     filtered |-> NoFrame, projected |-> NoFrame, graph |-> NoDoc]

\* lines 193-197, one assignment per key of axes_vars
RECURSIVE TypeAssignments(_, _, _)
TypeAssignments(keys, axes_vars, df) ==
    IF keys = {} THEN << >>
    ELSE LET key == CHOOSE k \in keys : TRUE
         IN <<[path |-> <<"encoding", key, "type">>,
               sub |-> Leaf(S(AxisType(df, axes_vars[key])))]>>
            \o TypeAssignments(keys \ {key}, axes_vars, df)

\* a merge that gives each axis the other axis's title
BarAssignmentsSwapped(o, df) ==
    <<[path |-> <<"data">>, sub |-> (<<"values">> :> List(df.rows))],
      [path |-> <<"encoding", "y", "field">>, sub |-> Leaf(S(o.axes_vars["y"]))],
      [path |-> <<"encoding", "y", "axis">>, sub |-> (<<"title">> :> S(o.x_axis_label))]>>
    \o TypeAssignments(DOMAIN o.axes_vars, o.axes_vars, df)
    \o <<[path |-> <<"encoding", "x", "field">>, sub |-> Leaf(S(o.axes_vars["x"]))],
         [path |-> <<"encoding", "x", "axis">>, sub |-> (<<"title">> :> S(o.y_axis_label))]>>

\* lines 187-199 in order
BarAssignments(o, df) ==
    <<[path |-> <<"data">>, sub |-> (<<"values">> :> List(df.rows))],
      [path |-> <<"encoding", "y", "field">>, sub |-> Leaf(S(o.axes_vars["y"]))],
      [path |-> <<"encoding", "y", "axis">>, sub |-> (<<"title">> :> S(o.y_axis_label))]>>
    \o TypeAssignments(DOMAIN o.axes_vars, o.axes_vars, df)
    \o <<[path |-> <<"encoding", "x", "field">>, sub |-> Leaf(S(o.axes_vars["x"]))],
         [path |-> <<"encoding", "x", "axis">>, sub |-> (<<"title">> :> S(o.x_axis_label))]>>

\* line 326
HeatmapAssignments(o, df) ==
    <<[path |-> <<"data">>, sub |-> (<<"values">> :> List(df.rows))]>>

\* the projection each class makes of the filtered frame
Project(o, df, infers) ==
    IF o.cls = "VegaGraphHeatmap" THEN ProjectHeatmap(df)
    ELSE ProjectBar(df, o.axes_vars, infers)

Assignments(o, df) ==
    IF o.cls = "VegaGraphHeatmap" THEN HeatmapAssignments(o, df)
    ELSE BarAssignments(o, df)

\* a parse_jsons that swallows a failed read_config and returns what it has
parse_jsons_lenient(o, recs, infers) ==
    LET pandas_df == DataFrame(recs)
        r == Restrict(pandas_df, o.conditions_dict)
    IN IF ~r.ok THEN Failed(r.err, << >>)
       ELSE LET p == Project(o, r.val, infers)
            IN IF ~p.ok THEN Failed(p.err, <<"filter">>)
               ELSE LET c == read_config(o)
                    IN IF ~c.ok
                       THEN [Parsed(r.val, p.val, NoDoc) EXCEPT !.done = <<"filter", "project">>]
                       ELSE LET m == Assign(c.val, Assignments(o, p.val))
                            IN IF ~m.ok
                               THEN Failed(m.err, <<"filter", "project", "config">>)
                               ELSE Parsed(r.val, p.val, m.val)

\* VegaGraphBarBase.parse_jsons (lines 173-201) and VegaGraphHeatmap.parse_jsons
\* (lines 313-328) on the list recs; VegaGraphBar and VegaGraphScatter call the
\* former unchanged
parse_jsons(o, recs, infers) ==
    LET pandas_df == DataFrame(recs)
        r == Restrict(pandas_df, o.conditions_dict)
    IN IF ~r.ok THEN Failed(r.err, << >>)
       ELSE LET p == Project(o, r.val, infers)
            IN IF ~p.ok THEN Failed(p.err, <<"filter">>)
               ELSE LET c == read_config(o)
                    IN IF ~c.ok THEN Failed(c.err, <<"filter", "project">>)
                       ELSE LET m == Assign(c.val, Assignments(o, p.val))
                            IN IF ~m.ok
                               THEN Failed(m.err, <<"filter", "project", "config">>)
                               ELSE Parsed(r.val, p.val, m.val)

(* ------------------------------ inputs -------------------------------- *)

RecRoad ==
    [algorithm |-> S("BFS"), undirected |-> B(TRUE), dataset |-> S("road"),
     m_teps |-> F(126), alpha |-> F(10), beta |-> F(20)]
RecSoc ==
    [algorithm |-> S("BFS"), undirected |-> B(FALSE), mark_predecessors |-> B(TRUE),
     dataset |-> S("soc"), m_teps |-> F(31), alpha |-> I(2), beta |-> F(20)]
\* a second run on road: same dataset, m_teps half way between two integers
RecRoad2 ==
    [algorithm |-> S("BFS"), undirected |-> B(TRUE), dataset |-> S("road"),
     m_teps |-> F(125), alpha |-> F(15), beta |-> F(20)]
\* a failed run: m_teps is a string
RecFailed ==
    [algorithm |-> S("BFS"), undirected |-> B(FALSE), dataset |-> S("soc"),
     m_teps |-> S("n/a"), alpha |-> F(10), beta |-> F(20)]
\* an older file format: fewer fields, a numeric dataset id, 1 for true
RecOld == [undirected |-> I(1), dataset |-> F(70), m_teps |-> F(135)]

RecordPool == {RecRoad, RecSoc, RecRoad2, RecFailed, RecOld}

\* every list of at most n records of the pool
Tables(n) == UNION {[1..k -> RecordPool] : k \in 0..n}

ConditionsPool ==
    {<< >>,
     ("undirected" :> B(TRUE)),
     ("undirected" :> B(TRUE)) @@ ("dataset" :> S("road")),
     ("mark_predecessors" :> B(TRUE))}

AxesPool ==
    {[x |-> "dataset", y |-> "m_teps"],
     [x |-> "m_teps", y |-> "dataset"],
     [x |-> "dataset", y |-> "dataset"]}

Classes == {"VegaGraphBarBase", "VegaGraphBar", "VegaGraphScatter", "VegaGraphHeatmap"}

Labels(algorithm_name) ==
    [engine_name |-> "g", algorithm_name |-> algorithm_name,
     x_axis |-> "Datasets", y_axis |-> "MTEPS", file_suffix |-> "0"]

BFS == <<"B", "F", "S">>
SSSP == <<"S", "S", "S", "P">>
JsonExt == <<".", "j", "s", "o", "n">>

\* os.listdir of each input directory of the pipeline specification, with
\* the content of each file
Listing(dir) ==
    CASE dir = "gunrock" ->
           <<[name |-> BFS \o <<"a">> \o JsonExt, body |-> RecRoad],
             [name |-> <<"_">> \o BFS \o JsonExt, body |-> [spec |-> S("vega")]],
             [name |-> SSSP \o JsonExt, body |-> RecOld],
             [name |-> BFS \o <<".", "t", "x", "t">>, body |-> [log |-> S("text")]]>>
      [] dir = "rerun" ->
           <<[name |-> BFS \o <<"b">> \o JsonExt, body |-> RecRoad2],
             [name |-> BFS \o <<"c">> \o JsonExt, body |-> RecSoc]>>

InputDirs == {"gunrock", "rerun"}

\* input_path: a directory and whether the path string ends with the separator
\* (line 81 opens input_path + f)
InputPath(dir, sep) == [dir |-> dir, sep |-> sep]

(* ------------------------------ read_json ----------------------------- *)

\* os.path.splitext(f)[1]: from the last dot on, unless only dots precede it
SplitExt(f) ==
    LET dots == {i \in 1..Len(f) : f[i] = "."}
        last == CHOOSE i \in dots : \A j \in dots : j <= i
    IN IF dots = {} \/ \A j \in 1..(last - 1) : f[j] = "." THEN << >>
       ELSE SubSeq(f, last, Len(f))

\* a condition that does not look for the underscore
EligibleNoUnderscore(f, algorithm_name) ==
    /\ SplitExt(f) = JsonExt
    /\ IsPrefix(algorithm_name, f)

\* the condition of line 80
Eligible(f, algorithm_name) ==
    /\ SplitExt(f) = JsonExt
    /\ IsPrefix(algorithm_name, f)
    /\ ~IsPrefix(<<"_">>, f)

\* the loop of lines 79-81 over the listing; open(input_path + f) finds no
\* file when input_path does not end with the separator
RECURSIVE ReadLoop(_, _, _)
ReadLoop(files, o, acc) ==
    IF files = << >> THEN [ok |-> TRUE, err |-> "", loaded |-> acc]
    ELSE IF ~Eligible(files[1].name, o.algorithm_name) THEN ReadLoop(Tail(files), o, acc)
    ELSE IF ~o.input_path.sep THEN [ok |-> FALSE, err |-> "IOError", loaded |-> acc]
    ELSE ReadLoop(Tail(files), o, Append(acc, files[1].body))

\* read_json: os.listdir raises OSError for a directory that does not exist;
\* listdir[d] is what os.listdir(d) returns, each name with its file's content
read_json(o) ==
    IF o.input_path.dir \notin DOMAIN listdir
    THEN [ok |-> FALSE, err |-> "OSError", loaded |-> << >>]
    ELSE ReadLoop(listdir[o.input_path.dir], o, << >>)

(* --------------------------- the pipeline ----------------------------- *)

ObjIds == {"chart1", "chart2"}

\* the objects the pipeline specification constructs
RunConfigs ==
    {New("VegaGraphBar", InputPath("gunrock", TRUE), "rich", Labels(BFS),
         ("undirected" :> B(TRUE)), [x |-> "dataset", y |-> "m_teps"], TRUE),
     New("VegaGraphHeatmap", InputPath("rerun", TRUE), "minimal", Labels(BFS),
         << >>, [x |-> "dataset", y |-> "m_teps"], TRUE),
     New("VegaGraphScatter", InputPath("rerun", TRUE), "partial", Labels(BFS),
         << >>, [x |-> "dataset", y |-> "m_teps"], TRUE),
     New("VegaGraphBar", InputPath("gunrock", FALSE), "minimal", Labels(SSSP),
         << >>, [x |-> "dataset", y |-> "m_teps"], FALSE),
     New("VegaGraphScatter", InputPath("gunrock", TRUE), "minimal", Labels(SSSP),
         << >>, [x |-> "dataset", y |-> "m_teps"], FALSE)}

\* the objects the parse_jsons specification draws
ParseConfigs ==
    {New(cls, InputPath("gunrock", TRUE), dir, Labels(BFS), conds, axes, TRUE) :
        cls \in Classes, dir \in ConfigDirs, conds \in ConditionsPool, axes \in AxesPool}

NoProc == [exit |-> -1, stdout |-> ""]

\* what the vl2vg process can do with its input: compile it, or fail with or
\* without output (exit 127 is the shell not finding vl2vg)
ProcOutcomes ==
    {[exit |-> 0, stdout |-> "vega"],
     [exit |-> 0, stdout |-> ""],
     [exit |-> 1, stdout |-> "partial"],
     [exit |-> 127, stdout |-> ""]}

\* line 117: the process's stdout, whatever its exit status
pipe_vl2vg(outcome) == outcome.stdout

Init ==
    /\ listdir = [d \in InputDirs |-> Listing(d)]
    /\ input_jsons = << >>
    /\ objs = << >>
    /\ pc = [o \in ObjIds |-> "none"]
    /\ df_filtered = [o \in ObjIds |-> NoFrame]
    /\ df_restricted = [o \in ObjIds |-> NoFrame]
    /\ graph = [o \in ObjIds |-> NoDoc]
    /\ vg = [o \in ObjIds |-> ""]
    /\ proc = [o \in ObjIds |-> NoProc]
    /\ written = [o \in ObjIds |-> << >>]
    /\ err = [o \in ObjIds |-> ""]
    /\ own = [o \in ObjIds |-> << >>]
    /\ table = [o \in ObjIds |-> << >>]
    /\ trace = [o \in ObjIds |-> << >>]
    /\ runs = 0

\* the constructor call
Construct(o) ==
    /\ pc[o] = "none"
    /\ \E cfg \in RunConfigs : objs' = objs @@ (o :> cfg)
    /\ pc' = [pc EXCEPT ![o] = "idle"]
    /\ UNCHANGED <<listdir, input_jsons, df_filtered, df_restricted, graph, vg, proc, written, err, own, table, trace, runs>>

\* run() line 90: read_json.  self.__input_jsons += [...] extends the list of
\* the class in place, so there is one list for all objects
ReadJson(o) ==
    /\ pc[o] \in {"idle", "done", "failed"}
    /\ runs < MaxRuns
    /\ LET r == read_json(objs[o])
       IN /\ input_jsons' = input_jsons \o r.loaded
          /\ own' = [own EXCEPT ![o] = r.loaded]
          /\ err' = [err EXCEPT ![o] = r.err]
          /\ pc' = [pc EXCEPT ![o] = IF r.ok THEN "read" ELSE "failed"]
          /\ trace' = [trace EXCEPT ![o] = IF r.ok THEN <<"load">> ELSE << >>]
    /\ runs' = runs + 1
    /\ df_filtered' = [df_filtered EXCEPT ![o] = NoFrame]
    /\ df_restricted' = [df_restricted EXCEPT ![o] = NoFrame]
    /\ graph' = [graph EXCEPT ![o] = NoDoc]
    /\ vg' = [vg EXCEPT ![o] = ""]
    /\ proc' = [proc EXCEPT ![o] = NoProc]
    /\ table' = [table EXCEPT ![o] = << >>]
    /\ UNCHANGED <<listdir, objs, written>>

\* run() line 91: parse_jsons on the list as it is now
ParseJsons(o) ==
    /\ pc[o] = "read"
    /\ \E infers \in BOOLEAN :
          LET r == parse_jsons(objs[o], input_jsons, infers)
          IN /\ table' = [table EXCEPT ![o] = input_jsons]
             /\ df_filtered' = [df_filtered EXCEPT ![o] = r.filtered]
             /\ df_restricted' = [df_restricted EXCEPT ![o] = r.projected]
             /\ graph' = [graph EXCEPT ![o] = r.graph]
             /\ err' = [err EXCEPT ![o] = r.err]
             /\ trace' = [trace EXCEPT ![o] = @ \o r.done]
             /\ pc' = [pc EXCEPT ![o] = IF r.ok THEN "parsed" ELSE "failed"]
    /\ UNCHANGED <<listdir, input_jsons, objs, vg, proc, written, own, runs>>

\* run() line 92: pipe_vl2vg
PipeVl2vg(o) ==
    /\ pc[o] = "parsed"
    /\ \E outcome \in ProcOutcomes :
          /\ proc' = [proc EXCEPT ![o] = outcome]
          /\ vg' = [vg EXCEPT ![o] = pipe_vl2vg(outcome)]
    /\ trace' = [trace EXCEPT ![o] = Append(@, "render")]
    /\ pc' = [pc EXCEPT ![o] = "piped"]
    /\ UNCHANGED <<listdir, input_jsons, objs, df_filtered, df_restricted, graph, written, err, own, table, runs>>

\* run() line 93: self.write_to_file(rawinput=json, ...); the file has the
\* same name on every run of the object.  run() returns or raises, and its
\* local variables are gone
WriteToFile(o) ==
    /\ pc[o] = "piped"
    /\ IF objs[o].writer
       THEN /\ written' = [written EXCEPT ![o] = <<vg[o]>>]
            /\ trace' = [trace EXCEPT ![o] = Append(@, "write")]
            /\ pc' = [pc EXCEPT ![o] = "done"]
            /\ err' = err
       ELSE /\ err' = [err EXCEPT ![o] = "AttributeError"]
            /\ pc' = [pc EXCEPT ![o] = "failed"]
            /\ UNCHANGED <<written, trace>>
    /\ df_filtered' = [df_filtered EXCEPT ![o] = NoFrame]
    /\ df_restricted' = [df_restricted EXCEPT ![o] = NoFrame]
    /\ graph' = [graph EXCEPT ![o] = NoDoc]
    /\ vg' = [vg EXCEPT ![o] = ""]
    /\ proc' = [proc EXCEPT ![o] = NoProc]
    /\ UNCHANGED <<listdir, input_jsons, objs, own, table, runs>>

Next ==
    \E o \in ObjIds :
        \/ Construct(o)
        \/ ReadJson(o)
        \/ ParseJsons(o)
        \/ PipeVl2vg(o)
        \/ WriteToFile(o)

Spec == Init /\ [][Next]_vars

(* --------------- parse_jsons on every Table and object ----------------- *)

\* one object whose Loader call has returned, on any list of records
InitParse ==
    /\ listdir = [d \in InputDirs |-> Listing(d)]
    /\ input_jsons \in Tables(MaxLen)
    /\ \E cfg \in ParseConfigs : objs = ("chart1" :> cfg)
    /\ pc = [o \in ObjIds |-> IF o = "chart1" THEN "read" ELSE "none"]
    /\ df_filtered = [o \in ObjIds |-> NoFrame]
    /\ df_restricted = [o \in ObjIds |-> NoFrame]
    /\ graph = [o \in ObjIds |-> NoDoc]
    /\ vg = [o \in ObjIds |-> ""]
    /\ proc = [o \in ObjIds |-> NoProc]
    /\ written = [o \in ObjIds |-> << >>]
    /\ err = [o \in ObjIds |-> ""]
    /\ own = [o \in ObjIds |-> IF o = "chart1" THEN input_jsons ELSE << >>]
    /\ table = [o \in ObjIds |-> << >>]
    /\ trace = [o \in ObjIds |-> IF o = "chart1" THEN <<"load">> ELSE << >>]
    /\ runs = 1

NextParse == \E o \in ObjIds : ParseJsons(o)

SpecParse == InitParse /\ [][NextParse]_vars

(* ---------- read_json on every listing and algorithm name -------------- *)

\* file names a directory can hold: two inputs of BFS, a generated output,
\* an input of SSSP, a log, a name that is only the extension, one that is a
\* dot and the extension, a name that holds BFS but does not start with it,
\* and a backup of an input
FileNames ==
    {BFS \o <<"a">> \o JsonExt,
     BFS \o JsonExt,
     <<"_">> \o BFS \o JsonExt,
     SSSP \o JsonExt,
     BFS \o <<".", "t", "x", "t">>,
     JsonExt,
     <<".">> \o JsonExt,
     <<"x">> \o BFS \o JsonExt,
     BFS \o JsonExt \o <<"~">>}

\* algorithm_name is any string: also the empty one and one that starts
\* with an underscore
AlgorithmNames == {BFS, SSSP, << >>, <<"_">>}

\* json.load of the file of that name: a record no other file holds
FileRecord(name) == [file |-> name]

\* every os.listdir result of at most n names, no name twice
Listings(n) ==
    LET names == {ns \in UNION {[1..k -> FileNames] : k \in 0..n} :
                     \A i, j \in DOMAIN ns : ns[i] = ns[j] => i = j}
    IN {[i \in DOMAIN ns |-> [name |-> ns[i], body |-> FileRecord(ns[i])]] : ns \in names}

\* a process with two objects on one directory, no read_json call made yet
InitLoad ==
    /\ \E l \in Listings(MaxFiles) : listdir = ("gunrock" :> l)
    /\ \E a \in AlgorithmNames, sep \in BOOLEAN :
          objs = ("chart1" :> New("VegaGraphBar", InputPath("gunrock", sep), "minimal",
                                  Labels(a), << >>, [x |-> "dataset", y |-> "m_teps"], TRUE))
              @@ ("chart2" :> New("VegaGraphScatter", InputPath("gunrock", TRUE), "minimal",
                                  Labels(BFS), << >>, [x |-> "dataset", y |-> "m_teps"], TRUE))
    /\ input_jsons = << >>
    /\ pc = [o \in ObjIds |-> "idle"]
    /\ df_filtered = [o \in ObjIds |-> NoFrame]
    /\ df_restricted = [o \in ObjIds |-> NoFrame]
    /\ graph = [o \in ObjIds |-> NoDoc]
    /\ vg = [o \in ObjIds |-> ""]
    /\ proc = [o \in ObjIds |-> NoProc]
    /\ written = [o \in ObjIds |-> << >>]
    /\ err = [o \in ObjIds |-> ""]
    /\ own = [o \in ObjIds |-> << >>]
    /\ table = [o \in ObjIds |-> << >>]
    /\ trace = [o \in ObjIds |-> << >>]
    /\ runs = 0

NextLoad == \E o \in ObjIds : ReadJson(o)

SpecLoad == InitLoad /\ [][NextLoad]_vars

(* =============================== claims =============================== *)

\* the objects whose parse_jsons has returned a graph
ParsedObjs == {o \in ObjIds : pc[o] = "parsed"}
\* the objects whose parse_jsons has returned or raised
AfterParse == {o \in ObjIds : table[o] # << >> \/ pc[o] = "parsed"}
\* the fields of the records of a Table
Columns(T) == UNION {DOMAIN T[i] : i \in DOMAIN T}
\* record r satisfies every entry of the Predicate Set P
MatchesAll(r, P) == \A k \in DOMAIN P : k \in DOMAIN r /\ PyEq(r[k], P[k])
\* the same scalar, whatever numeric type holds it
SameScalar(a, b) == a = b \/ (IsNum(a) /\ IsNum(b) /\ Num(a) = Num(b))
\* record r of the Table as row of a frame with these columns
SameRecord(row, r) ==
    \A c \in DOMAIN row :
        IF c \in DOMAIN r THEN SameScalar(row[c], r[c]) ELSE row[c] = NaN
Increasing(s) == \A i, j \in DOMAIN s : i < j => s[i] < s[j]
DataValues == <<"data", "values">>

\* C1: the filter loop leaves exactly the records of the Table that equal the
\* Predicate Set's value on every key, in the Table's order, none repeated or
\* altered; with an empty Predicate Set it leaves the whole Table
C1_FilterExact ==
    \A o \in ParsedObjs :
        LET T == table[o]
            P == objs[o].conditions_dict
            D == df_filtered[o]
        IN DOMAIN P \subseteq Columns(T) =>
            /\ Increasing(D.index)
            /\ {D.index[j] + 1 : j \in DOMAIN D.index} = {i \in DOMAIN T : MatchesAll(T[i], P)}
            /\ Len(D.rows) = Len(D.index)
            /\ \A j \in DOMAIN D.rows :
                  /\ DOMAIN D.rows[j] = Columns(T)
                  /\ SameRecord(D.rows[j], T[D.index[j] + 1])
            /\ (DOMAIN P = {} => Len(D.rows) = Len(T))

\* C1 witness: a filter on two keys kept one record and dropped another that
\* matched one of the keys
C1_Witness ==
    \E o \in ParsedObjs :
        /\ Cardinality(DOMAIN objs[o].conditions_dict) = 2
        /\ Len(df_filtered[o].rows) = 1
        /\ \E i \in DOMAIN table[o] :
              /\ ~MatchesAll(table[o][i], objs[o].conditions_dict)
              /\ \E k \in DOMAIN objs[o].conditions_dict :
                    /\ k \in DOMAIN table[o][i]
                    /\ PyEq(table[o][i][k], objs[o].conditions_dict[k])

\* C6: when some record of the Table lacks a key of the Predicate Set, the
\* filter does not raise (it raises exactly when parse_jsons fails before
\* completing the filter stage)
C6_MissingKeyNeverRaises ==
    \A o \in AfterParse :
        (\E i \in DOMAIN table[o] :
            \E k \in DOMAIN objs[o].conditions_dict : k \notin DOMAIN table[o][i])
        => ~(pc[o] = "failed" /\ trace[o] = <<"load">>)

\* the part of C6 the code does keep: a key that only some records lack
\* excludes those records and raises nothing
C6_MissingInSomeExcluded ==
    \A o \in AfterParse :
        LET T == table[o]
            P == objs[o].conditions_dict
        IN (T # << >> /\ DOMAIN P \subseteq Columns(T)) =>
              /\ ~(pc[o] = "failed" /\ trace[o] = <<"load">>)
              /\ pc[o] = "parsed" =>
                    \A j \in DOMAIN df_filtered[o].index :
                        DOMAIN P \subseteq DOMAIN T[df_filtered[o].index[j] + 1]

\* the bar and scatter objects among those parsed
ParsedBars == {o \in ParsedObjs : objs[o].cls # "VegaGraphHeatmap"}
ParsedHeatmaps == {o \in ParsedObjs : objs[o].cls = "VegaGraphHeatmap"}
\* the data values of the returned graph
Values(o) == graph[o][DataValues].v

\* C2 as claimed: one output record per distinct x of the filtered input, no
\* other x, each with the y of the last filtered record having that x
C2_OnePerDistinctX ==
    \A o \in ParsedBars :
        LET x == objs[o].axes_vars["x"]
            y == objs[o].axes_vars["y"]
            D == df_filtered[o].rows
            V == Values(o)
        IN /\ {V[j][x] : j \in DOMAIN V} = {Cast(D[i][x], df_restricted[o].dtype[x]) : i \in DOMAIN D}
           /\ Len(V) = Cardinality({D[i][x] : i \in DOMAIN D})
           /\ \A j \in DOMAIN V :
                 \E i \in DOMAIN D :
                    /\ SameScalar(D[i][x], V[j][x])
                    /\ \A k \in DOMAIN D : k > i => ~SameScalar(D[k][x], V[j][x])
                    /\ V[j][y] = D[i][y]

\* C2 amended: one output record per filtered record, in the filtered order,
\* holding that record's x and y and nothing else; records that share an x are
\* all kept, so the x values of the output are those of the filtered input
C2_OnePerRecord ==
    \A o \in ParsedBars :
        LET x == objs[o].axes_vars["x"]
            y == objs[o].axes_vars["y"]
            D == df_filtered[o].rows
            V == Values(o)
        IN /\ Len(V) = Len(D)
           /\ \A j \in DOMAIN V :
                 /\ DOMAIN V[j] = {x, y}
                 /\ V[j][x] = D[j][x] \/ SameScalar(V[j][x], D[j][x])
                 /\ V[j][y] = D[j][y]

\* C2 witness: two filtered records share their x and both are in the output
C2_Witness ==
    \E o \in ParsedBars :
        LET x == objs[o].axes_vars["x"]
            D == df_filtered[o].rows
        IN /\ Len(D) = 2
           /\ D[1][x] = D[2][x]
           /\ D[1] # D[2]
           /\ Len(Values(o)) = 2

\* the template the object's read_config loads
Template(o) == read_config(objs[o]).val
\* the sub-mappings the merge assigns as a whole
Replaced(o) ==
    IF objs[o].cls = "VegaGraphHeatmap" THEN {<<"data">>}
    ELSE {<<"data">>, <<"encoding", "x", "axis">>, <<"encoding", "y", "axis">>}
\* the slots the merge fills
Slots(o) ==
    IF objs[o].cls = "VegaGraphHeatmap" THEN {DataValues}
    ELSE {DataValues} \cup
         UNION {{<<"encoding", k, "field">>, <<"encoding", k, "type">>,
                 <<"encoding", k, "axis", "title">>} : k \in {"x", "y"}}
Under(R, p) == \E r \in R : IsPrefix(r, p) /\ r # p
UnderOrAt(R, p) == \E r \in R : IsPrefix(r, p)

\* C3 as claimed: every key path of the template, at every depth, is a key
\* path of the Assembled Spec, and the two differ only in the slots
C3_NoKeyDropped ==
    \A o \in ParsedObjs :
        /\ KeyPaths(Template(o)) \subseteq KeyPaths(graph[o])
        /\ \A p \in DOMAIN graph[o] :
              p \notin Slots(o) => p \in DOMAIN Template(o) /\ Template(o)[p] = graph[o][p]

\* C3 amended: the merge assigns data and, for bar and scatter, each axis
\* mapping as a whole: template keys nested under those are dropped, while data,
\* the axis mappings and every key path outside them are still present, and
\* the Assembled Spec differs from the template only in the slots
C3_KeysOutsideReplacedKept ==
    \A o \in ParsedObjs :
        /\ \A p \in KeyPaths(Template(o)) : ~Under(Replaced(o), p) => p \in KeyPaths(graph[o])
        /\ \A p \in DOMAIN Template(o) :
              (~UnderOrAt(Replaced(o) \cup Slots(o), p) /\ Template(o)[p].ty # "dict")
              => p \in DOMAIN graph[o] /\ graph[o][p] = Template(o)[p]
        /\ \A p \in DOMAIN graph[o] :
              p \notin Slots(o) => p \in DOMAIN Template(o) /\ Template(o)[p] = graph[o][p]

\* C3 witness: a bar or scatter merge into a template with keys nested under
\* data and under an axis, which the Assembled Spec no longer has
C3_Witness ==
    \E o \in ParsedBars :
        /\ <<"data", "format", "type">> \in KeyPaths(Template(o)) \ KeyPaths(graph[o])
        /\ <<"encoding", "x", "axis", "labelAngle">> \in KeyPaths(Template(o)) \ KeyPaths(graph[o])
        /\ <<"encoding", "x", "scale", "zero">> \in KeyPaths(graph[o])

\* the values of field f in the projected records
Projected(o, f) == {Values(o)[j][f] : j \in DOMAIN Values(o)}
\* the values of field f in the records of the Table that have it
Loaded(o, f) == {table[o][i][f] : i \in {i \in DOMAIN table[o] : f \in DOMAIN table[o][i]}}
EncType(o, k) == graph[o][<<"encoding", k, "type">>].v

\* C4 as claimed: an axis whose projected values are all floats is
\* quantitative, one whose projected values are all strings is ordinal,
\* whatever the removed records hold
C4_TypeOfProjected ==
    \A o \in ParsedBars : \A k \in {"x", "y"} :
        LET vals == Projected(o, objs[o].axes_vars[k])
        IN vals # {} =>
              /\ (\A a \in vals : a.ty = "float") => EncType(o, k) = "quantitative"
              /\ (\A a \in vals : a.ty = "str") => EncType(o, k) = "ordinal"

\* C4 amended: the type follows the storage type the column got when the Table
\* was built from all loaded records: an axis whose field is a float in every
\* loaded record that has it is quantitative, one whose field is a string in
\* every such record is ordinal; a removed record of another type can change it
C4_TypeOfLoaded ==
    \A o \in ParsedBars : \A k \in {"x", "y"} :
        LET vals == Loaded(o, objs[o].axes_vars[k])
        IN /\ (\A a \in vals : a.ty = "float") => EncType(o, k) = "quantitative"
           /\ (\A a \in vals : a.ty = "str") => EncType(o, k) = "ordinal"

\* C4 witness: the filter removed a record, every loaded value of the y field
\* is a float and the y axis is quantitative
C4_Witness ==
    \E o \in ParsedBars :
        /\ Len(Values(o)) = 1
        /\ Len(table[o]) = 2
        /\ \A a \in Loaded(o, objs[o].axes_vars["y"]) : a.ty = "float"
        /\ \A a \in Loaded(o, objs[o].axes_vars["x"]) : a.ty = "str"
        /\ EncType(o, "y") = "quantitative"
        /\ EncType(o, "x") = "ordinal"

AxisLabel(o, k) == IF k = "x" THEN objs[o].x_axis_label ELSE objs[o].y_axis_label
\* the slot at key path p holds the string s
Holds(o, p, s) == p \in DOMAIN graph[o] /\ graph[o][p] = S(s)
\* the four parts of the merge for one object
DataFilled(o) == Values(o) = df_restricted[o].rows
AxisFilled(o, k) ==
    LET f == objs[o].axes_vars[k]
    IN /\ Holds(o, <<"encoding", k, "field">>, f)
       /\ Holds(o, <<"encoding", k, "axis", "title">>, AxisLabel(o, k))
       /\ f \in df_restricted[o].cols
       /\ Holds(o, <<"encoding", k, "type">>,
                IF df_restricted[o].dtype[f] = "float64" THEN "quantitative" ELSE "ordinal")

\* C9 as claimed: for bar, scatter and heatmap alike the Assembled Spec holds
\* the projected records as data values and, for each axis, the Axis Mapping's
\* field, the Labels' title and the inferred type
C9_AllChartsFilled ==
    \A o \in ParsedObjs : DataFilled(o) /\ AxisFilled(o, "x") /\ AxisFilled(o, "y")

\* C9 amended: that holds for bar and scatter; the heatmap merge fills the data
\* values only and leaves the template's encoding as it was loaded, setting no
\* field, title or type
C9_BarsFilledHeatmapDataOnly ==
    /\ \A o \in ParsedBars : DataFilled(o) /\ AxisFilled(o, "x") /\ AxisFilled(o, "y")
    /\ \A o \in ParsedHeatmaps :
          /\ DataFilled(o)
          /\ \A p \in DOMAIN graph[o] \cup DOMAIN Template(o) :
                ~IsPrefix(<<"data">>, p)
                => /\ p \in DOMAIN graph[o] \cap DOMAIN Template(o)
                   /\ graph[o][p] = Template(o)[p]

\* C9 witness: a bar or scatter merge of two records whose axes get different
\* types
C9_Witness ==
    \E o \in ParsedBars :
        /\ Len(Values(o)) = 2
        /\ EncType(o, "x") # EncType(o, "y")
        /\ AxisFilled(o, "x") /\ AxisFilled(o, "y")

\* C10: the heatmap's data values are one record per filtered record, in
\* order, with that record's dataset, m_teps, alpha and beta (NaN for one the
\* record lacks) and with m_teps_rounded, an integer no further than one half
\* from m_teps; no other Axis Mapping changes them
C10_HeatmapValues ==
    \A o \in ParsedHeatmaps :
        LET T == table[o]
            D == df_filtered[o]
            V == Values(o)
        IN /\ Len(V) = Len(D.rows)
           /\ \A j \in DOMAIN V :
                 /\ DOMAIN V[j] = HeatmapFields \cup {"m_teps_rounded"}
                 /\ \A c \in HeatmapFields :
                       /\ V[j][c] = D.rows[j][c]
                       /\ IF c \in DOMAIN T[D.index[j] + 1]
                          THEN SameScalar(V[j][c], T[D.index[j] + 1][c])
                          ELSE V[j][c] = NaN
                 /\ IF V[j]["m_teps"] = NaN THEN V[j]["m_teps_rounded"] = NaN
                    ELSE /\ V[j]["m_teps_rounded"].ty = "float"
                         /\ V[j]["m_teps_rounded"].v % 10 = 0
                         /\ 2 * (V[j]["m_teps_rounded"].v - Num(V[j]["m_teps"])) \in -10..10
           /\ \A av \in AxesPool : \A infers \in BOOLEAN :
                 LET other == parse_jsons([objs[o] EXCEPT !.axes_vars = av], T, infers)
                 IN other.ok /\ other.graph[DataValues].v = V

\* C10 witness: a heatmap record with m_teps 12.6 and m_teps_rounded 13
C10_Witness ==
    \E o \in ParsedHeatmaps :
        \E j \in DOMAIN Values(o) :
            /\ Values(o)[j]["m_teps"] = F(126)
            /\ Values(o)[j]["m_teps_rounded"] = F(130)

\* how often record r occurs in the list s
Count(s, r) == Cardinality({i \in DOMAIN s : s[i] = r})

\* C5: the Table an object's parse_jsons works on holds only the records that
\* object's own Loader call loaded
C5_OwnRecordsOnly ==
    \A o \in ObjIds : \A r \in Range(table[o]) : Count(table[o], r) <= Count(own[o], r)

\* a step of the writer for object o
WriterInvoked(o) == trace'[o] = Append(trace[o], "write") \/ written'[o] # written[o]

AllStages == <<"load", "filter", "project", "config", "merge", "render">>

C8_BridgeChecksProcess ==
    \A o \in ObjIds : pc[o] = "piped" => (proc[o].exit = 0 /\ vg[o] # "")

\* the words of the Loader contract on a file name f: f starts with p
StartsWith(f, p) == Len(p) <= Len(f) /\ \A i \in 1..Len(p) : f[i] = p[i]

\* f has the .json extension: it ends in .json after a stem that is not empty
\* and not made of dots only (a name that is nothing but .json is a hidden
\* file without extension)
HasJsonExtension(f) ==
    LET n == Len(f) - Len(JsonExt)
    IN /\ n > 0
       /\ \A i \in 1..Len(JsonExt) : f[n + i] = JsonExt[i]
       /\ \E i \in 1..n : f[i] # "."

\* the files the Loader contract asks for
Wanted(f, a) == StartsWith(f, a) /\ HasJsonExtension(f) /\ ~StartsWith(f, <<"_">>)

\* a read_json call of object o returns in this step
Loads(o) == pc[o] # "read" /\ pc'[o] = "read"

\* C11: for every directory listing and algorithm name, a read_json call that
\* returns has put into the Table exactly one record per file of the listing
\* whose name starts with the algorithm name, has the .json extension and
\* does not start with an underscore, in listing order, and no record of any
\* other file; on the first call of the process the Table holds exactly these
\* records, and no record of a file whose name starts with an underscore is
\* ever in the Table
C11_LoadsExactlyEligible ==
    [][\A o \in ObjIds : Loads(o) =>
          LET L == listdir[objs[o].input_path.dir]
              a == objs[o].algorithm_name
              W == {i \in DOMAIN L : Wanted(L[i].name, a)}
              T == input_jsons'
              new == SubSeq(T, Len(input_jsons) + 1, Len(T))
          IN /\ Len(T) >= Len(input_jsons)
             /\ SubSeq(T, 1, Len(input_jsons)) = input_jsons
             /\ Len(new) = Cardinality(W)
             /\ \A i \in W : Count(new, L[i].body) = 1
             /\ \A k \in DOMAIN new : \E i \in W : new[k] = L[i].body
             /\ \A j, k \in DOMAIN new : \A i, h \in W :
                    (new[j] = L[i].body /\ new[k] = L[h].body /\ j < k) => i < h
             /\ \A k \in DOMAIN T : ~StartsWith(T[k].file, <<"_">>)]_vars

\* C11 witness: the first read_json call of the process has returned with a
\* record loaded, from a directory holding a .json file that starts with the
\* algorithm name and with an underscore, and that file's record is not loaded
C11_Witness ==
    \E o \in ObjIds :
        LET L == listdir[objs[o].input_path.dir]
        IN /\ pc[o] = "read"
           /\ own[o] # << >>
           /\ input_jsons = own[o]
           /\ \E i \in DOMAIN L :
                 /\ StartsWith(L[i].name, <<"_">>)
                 /\ StartsWith(L[i].name, objs[o].algorithm_name)
                 /\ HasJsonExtension(L[i].name)
                 /\ L[i].body \notin Range(input_jsons)

====
